---- MODULE Spec2Model ----
(***************************************************************************)
(* Model of the file upload client (src/client.cpp): the batch loop of     *)
(* main, the retry loop of manage_connection and the protocol writes of    *)
(* send_file.  The program is single threaded; every blocking call         *)
(* (directory iteration, resolve, connect, file open, socket write) is one *)
(* step whose outcome the environment chooses.  Spec is the program;        *)
(* SpecSize applies the encoding of the size field (line 69) to file sizes *)
(* given as size_t bytes, which reach beyond 32 bits.                      *)
(***************************************************************************)
EXTENDS Integers, Sequences, FiniteSets

\* ---------------------------------------------------------------- constants
CHUNK_SIZE == 4096
MAX_RETRIES == 3
RETRY_INTERVAL == 5

\* bytes of a size_t and of a uint32_t
SIZE_T_BYTES == 8
U32_BYTES == 4

\* ------------------------------------------------------------------- bounds
\* number of directory entries the iterator yields
MaxEntries == 2
\* cap on the connection attempts followed for one file
MaxAttempts == 4
\* sizes a file may have when send_file measures it
FileSizes == {0, 4096, 10000}

VARIABLES
    pc,                 \* position of the single thread of control
    entries,            \* the directory: kind of each entry, in iteration order
    idx,                \* entries consumed by the iterator of main
    started,            \* set of entries manage_connection was called for
    retry_count,        \* manage_connection: retry_count
    hist,               \* events of the current manage_connection call
    wlog,               \* write calls made on the current socket
    file_size,          \* send_file: file_size
    total_bytes_sent,   \* send_file: total_bytes_sent
    slept,              \* seconds slept in the current manage_connection call
    sfExit,             \* how the last send_file call ended
    result,             \* how the last manage_connection call ended
    abort,              \* why main left its for loop early
    file_size_bytes,    \* send_file: file_size as the bytes of a size_t
    net_file_size,      \* send_file: net_file_size, the bytes of the size field
    flen,               \* length of the file being sent, as it is on disk now
    progress,           \* percentages send_file has reported in this call
    md5_updates,        \* calculate_md5: the MD5_Update calls of the last digest
    socks,              \* the sockets constructed by the current manage_connection call
    out,                \* failure messages printed since the current file was started
    mtx                 \* the mutex mtx: held, locked while held, ever locked

vars == <<pc, entries, idx, started, retry_count, hist, wlog, file_size,
          total_bytes_sent, slept, sfExit, result, abort,
          file_size_bytes,
          net_file_size,
          flen,
          progress,
          md5_updates,
          socks,
          out,
          mtx>>

Min(a, b) == IF a < b THEN a ELSE b

Max(a, b) == IF a < b THEN b ELSE a

Last(s) == s[Len(s)]

\* a write call on the socket: the field, the file offset and byte count of a
\* payload chunk, and whether boost::asio::write completed
WriteCall(f, o, n, k) == [field |-> f, off |-> o, n |-> n, ok |-> k]

\* the k low base-256 digits of n, least significant first
RECURSIVE Digits(_, _)
Digits(n, k) == IF k = 0 THEN <<>> ELSE <<n % 256>> \o Digits(n \div 256, k - 1)

\* a size_t value as its bytes, least significant first
SizeT(n) == Digits(n, SIZE_T_BYTES)

\* the conversion of a size_t to uint32_t keeps the low 32 bits
ToU32(b) == SubSeq(b, 1, U32_BYTES)

\* htonl: the bytes of a uint32_t as they go on the wire, most significant first
Htonl(b) == [i \in 1..U32_BYTES |-> b[U32_BYTES + 1 - i]]

Init ==
    /\ pc = "main_iter"
    /\ entries \in [1..MaxEntries -> {"file", "dir"}]
    /\ idx = 0
    /\ started = {}
    /\ retry_count = 0
    /\ hist = <<>>
    /\ wlog = <<>>
    /\ file_size = 0
    /\ total_bytes_sent = 0
    /\ slept = 0
    /\ sfExit = "none"
    /\ result = "none"
    /\ abort = "none"
    /\ file_size_bytes = SizeT(0)
    /\ net_file_size = <<>>
    /\ flen = 0
    /\ progress = <<>>
    /\ md5_updates = <<>>
    /\ socks = <<>>
    /\ out = <<>>
    /\ mtx = [held |-> FALSE, relock |-> FALSE, used |-> FALSE]

\* file sizes as size_t bytes, among them 10000 and 2^32 + 1808
WideSizes ==
    {<<a, b, c, e, h, 0, 0, 0>> :
        a \in {0, 16, 255}, b \in {0, 7, 39}, c \in {0, 1}, e \in {0, 255}, h \in {0, 1}}

\* send_file at line 69, for a file of any measured size
InitSize ==
    /\ pc = "encode"
    /\ entries = [i \in 1..MaxEntries |-> "file"]
    /\ idx = 0
    /\ started = {}
    /\ retry_count = 0
    /\ hist = <<>>
    /\ wlog = <<>>
    /\ file_size = 0
    /\ total_bytes_sent = 0
    /\ slept = 0
    /\ sfExit = "none"
    /\ result = "none"
    /\ abort = "none"
    /\ file_size_bytes \in WideSizes
    /\ net_file_size = <<>>
    /\ flen = 0
    /\ progress = <<>>
    /\ md5_updates = <<>>
    /\ socks = <<>>
    /\ out = <<>>
    /\ mtx = [held |-> FALSE, relock |-> FALSE, used |-> FALSE]

\* ------------------------------------------------------------------- main
\* the iterator yields a regular file: manage_connection is called
MainFile ==
    /\ pc = "main_iter"
    /\ idx < MaxEntries
    /\ entries[idx + 1] = "file"
    /\ idx' = idx + 1
    /\ started' = started \cup {idx + 1}
    /\ pc' = "resolve"
    /\ hist' = <<>>
    /\ slept' = 0
    /\ result' = "none"
    /\ sfExit' = "none"
    /\ wlog' = <<>>
    /\ UNCHANGED <<entries, retry_count, file_size, total_bytes_sent, abort>>
    /\ UNCHANGED file_size_bytes
    /\ UNCHANGED net_file_size
    /\ UNCHANGED flen
    /\ UNCHANGED progress
    /\ UNCHANGED md5_updates
    /\ socks' = <<>>
    /\ out' = <<>>
    /\ UNCHANGED mtx

\* the iterator yields an entry that is not a regular file: skipped
MainSkip ==
    /\ pc = "main_iter"
    /\ idx < MaxEntries
    /\ entries[idx + 1] # "file"
    /\ idx' = idx + 1
    /\ UNCHANGED <<pc, entries, started, retry_count, hist, wlog, file_size,
                   total_bytes_sent, slept, sfExit, result, abort>>
    /\ UNCHANGED file_size_bytes
    /\ UNCHANGED net_file_size
    /\ UNCHANGED flen
    /\ UNCHANGED progress
    /\ UNCHANGED md5_updates
    /\ UNCHANGED socks
    /\ UNCHANGED out
    /\ UNCHANGED mtx

\* the iterator is exhausted: "All files processed."
MainEnd ==
    /\ pc = "main_iter"
    /\ idx = MaxEntries
    /\ pc' = "done"
    /\ UNCHANGED <<entries, idx, started, retry_count, hist, wlog, file_size,
                   total_bytes_sent, slept, sfExit, result, abort>>
    /\ UNCHANGED file_size_bytes
    /\ UNCHANGED net_file_size
    /\ UNCHANGED flen
    /\ UNCHANGED progress
    /\ UNCHANGED md5_updates
    /\ UNCHANGED socks
    /\ UNCHANGED out
    /\ UNCHANGED mtx

\* the iterator throws filesystem_error: caught by main's catch
MainEnumFail ==
    /\ pc = "main_iter"
    /\ idx < MaxEntries
    /\ pc' = "done"
    /\ abort' = "enum"
    /\ UNCHANGED <<entries, idx, started, retry_count, hist, wlog, file_size,
                   total_bytes_sent, slept, sfExit, result>>
    /\ UNCHANGED file_size_bytes
    /\ UNCHANGED net_file_size
    /\ UNCHANGED flen
    /\ UNCHANGED progress
    /\ UNCHANGED md5_updates
    /\ UNCHANGED socks
    /\ out' = Append(out, "Error")
    /\ UNCHANGED mtx

\* --------------------------------------------------------------- std::mutex
\* lock_guard<std::mutex> lock(mtx) is constructed: mtx.lock(); locking a
\* std::mutex the thread already owns is recorded in relock
Lock(m) == [held |-> TRUE, relock |-> m.relock \/ m.held, used |-> TRUE]

\* variant: the mutex is locked by hand and the unlock is forgotten
UnlockNot(m) == m

\* the scope of the lock_guard ends: mtx.unlock()
Unlock(m) == [m EXCEPT !.held = FALSE]

\* ------------------------------------------------------------- tcp::socket
\* a socket just constructed by line 115
NewSocket ==
    [open |-> FALSE, sessions |-> 0, written |-> FALSE, failed |-> FALSE, late |-> 0]

\* boost::asio::connect on the newest socket of ss succeeded and the socket
\* is passed to send_file
SockConnected(ss) ==
    [ss EXCEPT ![Len(ss)].open = TRUE, ![Len(ss)].sessions = @ + 1]

\* boost::asio::connect on the newest socket of ss threw
SockConnectFailed(ss) ==
    [ss EXCEPT ![Len(ss)].failed = TRUE]

\* a boost::asio::write call on the newest socket of ss, completed or not
SockWrite(ss, ok) ==
    [ss EXCEPT ![Len(ss)].written = TRUE,
               ![Len(ss)].late = IF ss[Len(ss)].failed THEN @ + 1 ELSE @,
               ![Len(ss)].failed = @ \/ ~ok]

\* variant: the socket outlives the try block
SockCloseNot(ss) == ss

\* the try block of manage_connection is left, by return, by its end or by
\* an exception: the socket declared in it is destroyed, which closes it
SockClose(ss) == [ss EXCEPT ![Len(ss)].open = FALSE]

\* ------------------------------------------------------ manage_connection
Attempts(h) == Len(SelectSeq(h, LAMBDA e : e = "connect"))

\* variant: the loop condition lets one more round through
LoopCondLe(rc) == rc <= MAX_RETRIES

\* the condition of the while loop
LoopCond(rc) == rc < MAX_RETRIES

\* resolver.resolve succeeds; int retry_count = 0
McResolveOk ==
    /\ pc = "resolve"
    /\ retry_count' = 0
    /\ pc' = "loop"
    /\ UNCHANGED <<entries, idx, started, hist, wlog, file_size,
                   total_bytes_sent, slept, sfExit, result, abort>>
    /\ UNCHANGED file_size_bytes
    /\ UNCHANGED net_file_size
    /\ UNCHANGED flen
    /\ UNCHANGED progress
    /\ UNCHANGED md5_updates
    /\ UNCHANGED socks
    /\ UNCHANGED out
    /\ UNCHANGED mtx

\* variant: the exception is caught inside the for loop of main, which goes on
McResolveFailGoesOn ==
    /\ pc = "resolve"
    /\ hist' = Append(hist, "resolve_error")
    /\ result' = "Thrown"
    /\ abort' = abort
    /\ pc' = "main_iter"
    /\ UNCHANGED <<entries, idx, started, retry_count, wlog, file_size,
                   total_bytes_sent, slept, sfExit>>
    /\ UNCHANGED file_size_bytes
    /\ UNCHANGED net_file_size
    /\ UNCHANGED flen
    /\ UNCHANGED progress
    /\ UNCHANGED md5_updates
    /\ UNCHANGED socks
    /\ out' = Append(out, "Error")
    /\ UNCHANGED mtx

\* resolver.resolve throws system_error outside the try block: the exception
\* leaves manage_connection and is caught by main, which leaves its loop
McResolveFail ==
    /\ pc = "resolve"
    /\ hist' = Append(hist, "resolve_error")
    /\ result' = "Thrown"
    /\ abort' = "resolve"
    /\ pc' = "done"
    /\ UNCHANGED <<entries, idx, started, retry_count, wlog, file_size,
                   total_bytes_sent, slept, sfExit>>
    /\ UNCHANGED file_size_bytes
    /\ UNCHANGED net_file_size
    /\ UNCHANGED flen
    /\ UNCHANGED progress
    /\ UNCHANGED md5_updates
    /\ UNCHANGED socks
    /\ out' = Append(out, "Error")
    /\ UNCHANGED mtx

\* variant: the catch block prints nothing
CatchSilent(h, kind) ==
    /\ retry_count' = retry_count + 1
    /\ hist' = h \o <<kind, "sleep">>
    /\ slept' = slept + RETRY_INTERVAL
    /\ pc' = "loop"
    /\ out' = out
    /\ mtx' = Unlock(Lock(mtx))

\* the catch block of manage_connection, entered after the events h:
\* ++retry_count, the message, sleep_for(RETRY_INTERVAL), back to the loop head
Catch(h, kind) ==
    /\ retry_count' = retry_count + 1
    /\ hist' = h \o <<kind, "sleep">>
    /\ slept' = slept + RETRY_INTERVAL
    /\ pc' = "loop"
    /\ out' = Append(out, "Connection error")
    /\ mtx' = Unlock(Lock(mtx))

\* a fresh socket is created and boost::asio::connect succeeds
McConnectOk ==
    /\ pc = "loop"
    /\ LoopCond(retry_count)
    /\ Attempts(hist) < MaxAttempts
    /\ hist' = Append(hist, "connect")
    /\ wlog' = <<>>
    /\ sfExit' = "none"
    /\ pc' = "sf_open"
    /\ UNCHANGED <<entries, idx, started, retry_count, file_size,
                   total_bytes_sent, slept, result, abort>>
    /\ UNCHANGED file_size_bytes
    /\ UNCHANGED net_file_size
    /\ UNCHANGED flen
    /\ UNCHANGED progress
    /\ UNCHANGED md5_updates
    /\ socks' = SockConnected(Append(socks, NewSocket))
    /\ UNCHANGED out
    /\ UNCHANGED mtx

\* a fresh socket is created and boost::asio::connect throws system_error
McConnectFail ==
    /\ pc = "loop"
    /\ LoopCond(retry_count)
    /\ Attempts(hist) < MaxAttempts
    /\ wlog' = <<>>
    /\ sfExit' = "none"
    /\ Catch(Append(hist, "connect"), "conn")
    /\ UNCHANGED <<entries, idx, started, file_size, total_bytes_sent,
                   result, abort>>
    /\ UNCHANGED file_size_bytes
    /\ UNCHANGED net_file_size
    /\ UNCHANGED flen
    /\ UNCHANGED progress
    /\ UNCHANGED md5_updates
    /\ socks' = SockClose(SockConnectFailed(Append(socks, NewSocket)))

\* the while loop ends: "Failed to send file after 3 retries.", return
McGiveUp ==
    /\ pc = "loop"
    /\ ~LoopCond(retry_count)
    /\ hist' = Append(hist, "failed")
    /\ result' = "Failed"
    /\ pc' = "main_iter"
    /\ UNCHANGED <<entries, idx, started, retry_count, wlog, file_size,
                   total_bytes_sent, slept, sfExit, abort>>
    /\ UNCHANGED file_size_bytes
    /\ UNCHANGED net_file_size
    /\ UNCHANGED flen
    /\ UNCHANGED progress
    /\ UNCHANGED md5_updates
    /\ UNCHANGED socks
    /\ out' = Append(out, "Failed to send file after")
    /\ mtx' = Unlock(Lock(mtx))

\* variant: the return after a successful send_file is missing
McAfterTrueLoop ==
    /\ result' = result
    /\ pc' = "loop"

\* send_file returned true: manage_connection returns
McAfterTrue ==
    /\ result' = "Succeeded"
    /\ pc' = "main_iter"

\* send_file returned false: the try block ends, the loop goes round again
McAfterFalse ==
    /\ retry_count' = retry_count
    /\ slept' = slept
    /\ pc' = "loop"

\* --------------------------------------------------------------- send_file
\* variant: the open check comes after the first protocol write
SfOpenFailLate ==
    /\ pc = "sf_open"
    /\ wlog' = Append(wlog, WriteCall("name_len", 0, 0, TRUE))
    /\ sfExit' = "false"
    /\ hist' = Append(hist, "open")
    /\ McAfterFalse
    /\ UNCHANGED <<entries, idx, started, file_size, total_bytes_sent,
                   result, abort>>
    /\ UNCHANGED file_size_bytes
    /\ UNCHANGED net_file_size
    /\ UNCHANGED flen
    /\ UNCHANGED progress
    /\ UNCHANGED md5_updates
    /\ socks' = SockClose(SockWrite(socks, TRUE))
    /\ out' = Append(out, "Failed to open file")
    /\ mtx' = Unlock(Lock(mtx))

\* the file cannot be opened: message, return false
SfOpenFail ==
    /\ pc = "sf_open"
    /\ wlog' = wlog
    /\ sfExit' = "false"
    /\ hist' = Append(hist, "open")
    /\ McAfterFalse
    /\ UNCHANGED <<entries, idx, started, file_size, total_bytes_sent,
                   result, abort>>
    /\ UNCHANGED file_size_bytes
    /\ UNCHANGED net_file_size
    /\ UNCHANGED flen
    /\ UNCHANGED progress
    /\ UNCHANGED md5_updates
    /\ socks' = SockClose(socks)
    /\ out' = Append(out, "Failed to open file")
    /\ mtx' = Unlock(Lock(mtx))

\* the file opens; seekg/tellg measure its size
SfOpenOk ==
    /\ pc = "sf_open"
    /\ \E s \in FileSizes : file_size' = s
    /\ total_bytes_sent' = 0
    /\ pc' = "sf_name_len"
    /\ UNCHANGED <<entries, idx, started, retry_count, hist, wlog, slept,
                   sfExit, result, abort>>
    /\ file_size_bytes' = SizeT(file_size')
    /\ net_file_size' = <<>>
    /\ flen' = file_size'
    /\ progress' = <<>>
    /\ md5_updates' = <<>>
    /\ UNCHANGED socks
    /\ UNCHANGED out
    /\ UNCHANGED mtx

\* variant: the size field is written after the payload instead of before it
AfterFieldSizeLate(f) ==
    CASE f = "name_len" -> "sf_name"
      [] f = "name"     -> "sf_loop"
      [] f = "size"     -> "sf_hash_len"
      [] f = "hash_len" -> "sf_hash"
      [] f = "hash"     -> "sf_return"

\* where send_file continues after the write of field f completed
AfterField(f) ==
    CASE f = "name_len" -> "sf_name"
      [] f = "name"     -> "sf_size"
      [] f = "size"     -> "sf_loop"
      [] f = "hash_len" -> "sf_hash"
      [] f = "hash"     -> "sf_return"

\* a write outside any try block of send_file completes
SfWriteOk(f) ==
    /\ pc = "sf_" \o f
    /\ wlog' = Append(wlog, WriteCall(f, 0, 0, TRUE))
    /\ IF AfterField(f) = "sf_return"
       THEN /\ sfExit' = "true"
            /\ hist' = Append(hist, "ok")
            /\ McAfterTrue
       ELSE /\ pc' = AfterField(f)
            /\ UNCHANGED <<sfExit, hist, result>>
    /\ UNCHANGED <<entries, idx, started, retry_count, file_size,
                   total_bytes_sent, slept, abort>>
    /\ UNCHANGED file_size_bytes
    /\ net_file_size' = IF f = "size" THEN Htonl(ToU32(file_size_bytes))
                                    ELSE net_file_size
    /\ UNCHANGED flen
    /\ UNCHANGED progress
    /\ UNCHANGED md5_updates
    /\ socks' = IF AfterField(f) = "sf_return"
                THEN SockClose(SockWrite(socks, TRUE))
                ELSE SockWrite(socks, TRUE)
    /\ UNCHANGED out
    /\ mtx' = IF AfterField(f) = "sf_return" THEN Unlock(Lock(mtx)) ELSE mtx

\* a write outside any try block of send_file throws system_error: the
\* exception leaves send_file and lands in the catch of manage_connection
SfWriteFail(f) ==
    /\ pc = "sf_" \o f
    /\ wlog' = Append(wlog, WriteCall(f, 0, 0, FALSE))
    /\ sfExit' = "throw"
    /\ Catch(hist, "throw")
    /\ UNCHANGED <<entries, idx, started, file_size, total_bytes_sent,
                   result, abort>>
    /\ UNCHANGED file_size_bytes
    /\ net_file_size' = IF f = "size" THEN Htonl(ToU32(file_size_bytes))
                                    ELSE net_file_size
    /\ UNCHANGED flen
    /\ UNCHANGED progress
    /\ UNCHANGED md5_updates
    /\ socks' = SockClose(SockWrite(socks, FALSE))

\* variant: the whole buffer is written whatever the read returned
BytesReadFull == IF flen > total_bytes_sent THEN CHUNK_SIZE ELSE 0

\* file.read / file.gcount in the streaming loop: the read position is
\* total_bytes_sent, and a read at or past the end of the file yields 0 bytes
BytesRead == Max(0, Min(CHUNK_SIZE, flen - total_bytes_sent))

\* variant: the division comes before the multiplication
PercentDivFirst(sent, size) == (sent \div size) * 100

\* the percentage printed after a chunk write
Percent(sent, size) == (100 * sent) \div size

\* one round of the streaming loop, the write completes
SfChunkOk ==
    /\ pc = "sf_loop"
    /\ total_bytes_sent < file_size
    /\ BytesRead > 0
    /\ wlog' = Append(wlog, WriteCall("chunk", total_bytes_sent, BytesRead, TRUE))
    /\ total_bytes_sent' = total_bytes_sent + BytesRead
    /\ UNCHANGED <<pc, entries, idx, started, retry_count, hist, file_size,
                   slept, sfExit, result, abort>>
    /\ UNCHANGED file_size_bytes
    /\ UNCHANGED net_file_size
    /\ UNCHANGED flen
    /\ progress' = Append(progress, Percent(total_bytes_sent', file_size))
    /\ UNCHANGED md5_updates
    /\ socks' = SockWrite(socks, TRUE)
    /\ UNCHANGED out
    /\ mtx' = Unlock(Lock(mtx))

\* variant: the catch block of the streaming loop lacks its return
SfChunkFailGoesOn ==
    /\ pc = "sf_loop"
    /\ total_bytes_sent < file_size
    /\ BytesRead > 0
    /\ wlog' = Append(wlog, WriteCall("chunk", total_bytes_sent, BytesRead, FALSE))
    /\ total_bytes_sent' = total_bytes_sent + BytesRead
    /\ UNCHANGED <<pc, entries, idx, started, retry_count, hist, file_size,
                   slept, sfExit, result, abort>>
    /\ UNCHANGED file_size_bytes
    /\ UNCHANGED net_file_size
    /\ UNCHANGED flen
    /\ UNCHANGED progress
    /\ UNCHANGED md5_updates
    /\ socks' = SockWrite(socks, FALSE)
    /\ UNCHANGED out
    /\ mtx' = Unlock(Lock(mtx))

\* one round of the streaming loop, the write throws: caught inside
\* send_file, "Failed to send data", return false
SfChunkFail ==
    /\ pc = "sf_loop"
    /\ total_bytes_sent < file_size
    /\ BytesRead > 0
    /\ wlog' = Append(wlog, WriteCall("chunk", total_bytes_sent, BytesRead, FALSE))
    /\ sfExit' = "false"
    /\ hist' = Append(hist, "write")
    /\ McAfterFalse
    /\ UNCHANGED <<entries, idx, started, file_size, total_bytes_sent,
                   result, abort>>
    /\ UNCHANGED file_size_bytes
    /\ UNCHANGED net_file_size
    /\ UNCHANGED flen
    /\ UNCHANGED progress
    /\ UNCHANGED md5_updates
    /\ socks' = SockClose(SockWrite(socks, FALSE))
    /\ out' = Append(out, "Failed to send data")
    /\ mtx' = Unlock(Lock(mtx))

\* another process truncates the file while the streaming loop is running
FileTruncate ==
    /\ pc = "sf_loop"
    /\ total_bytes_sent < file_size
    /\ flen = file_size
    /\ \E l \in FileSizes : l < flen /\ flen' = l
    /\ UNCHANGED <<pc, entries, idx, started, retry_count, hist, wlog, file_size,
                   total_bytes_sent, slept, sfExit, result, abort,
                   file_size_bytes, net_file_size, progress, md5_updates>>
    /\ UNCHANGED socks
    /\ UNCHANGED out
    /\ UNCHANGED mtx

\* one round of the streaming loop in which the read yields no byte: nothing
\* is written and nothing changes, the loop condition is tested again
SfChunkZero ==
    /\ pc = "sf_loop"
    /\ total_bytes_sent < file_size
    /\ ~(BytesRead > 0)
    /\ UNCHANGED vars

\* variant: the last MD5_Update passes the buffer capacity
RECURSIVE Md5UpdatesCap(_, _)
Md5UpdatesCap(off, len) ==
    IF len - off >= CHUNK_SIZE
    THEN <<[off |-> off, n |-> CHUNK_SIZE]>> \o Md5UpdatesCap(off + CHUNK_SIZE, len)
    ELSE <<[off |-> off, n |-> CHUNK_SIZE]>>

\* variant: the MD5_Update after the loop is missing
RECURSIVE Md5UpdatesNoTail(_, _)
Md5UpdatesNoTail(off, len) ==
    IF len - off >= CHUNK_SIZE
    THEN <<[off |-> off, n |-> CHUNK_SIZE]>> \o Md5UpdatesNoTail(off + CHUNK_SIZE, len)
    ELSE <<>>

\* calculate_md5: the MD5_Update calls for a file of len bytes read from off:
\* one of CHUNK_SIZE bytes for every read that fills the buffer, then one of
\* gcount() bytes for the read that did not
RECURSIVE Md5Updates(_, _)
Md5Updates(off, len) ==
    IF len - off >= CHUNK_SIZE
    THEN <<[off |-> off, n |-> CHUNK_SIZE]>> \o Md5Updates(off + CHUNK_SIZE, len)
    ELSE <<[off |-> off, n |-> len - off]>>

\* the streaming loop has ended and calculate_md5 returns the digest
SfMd5Ok ==
    /\ pc = "sf_loop"
    /\ ~(total_bytes_sent < file_size)
    /\ pc' = "sf_hash_len"
    /\ UNCHANGED <<entries, idx, started, retry_count, hist, wlog, file_size,
                   total_bytes_sent, slept, sfExit, result, abort>>
    /\ UNCHANGED file_size_bytes
    /\ UNCHANGED net_file_size
    /\ UNCHANGED flen
    /\ UNCHANGED progress
    /\ md5_updates' = Md5Updates(0, flen)
    /\ UNCHANGED socks
    /\ UNCHANGED out
    /\ UNCHANGED mtx

\* the streaming loop has ended and calculate_md5 cannot open the file: it
\* throws std::runtime_error, which manage_connection does not catch
\* (it catches boost::system::system_error only) and main does
SfMd5Fail ==
    /\ pc = "sf_loop"
    /\ ~(total_bytes_sent < file_size)
    /\ sfExit' = "throw"
    /\ hist' = Append(hist, "md5")
    /\ result' = "Thrown"
    /\ abort' = "md5"
    /\ pc' = "done"
    /\ UNCHANGED <<entries, idx, started, retry_count, wlog, file_size,
                   total_bytes_sent, slept>>
    /\ UNCHANGED file_size_bytes
    /\ UNCHANGED net_file_size
    /\ UNCHANGED flen
    /\ UNCHANGED progress
    /\ UNCHANGED md5_updates
    /\ socks' = SockClose(socks)
    /\ out' = Append(out, "Error")
    /\ UNCHANGED mtx

Next ==
    \/ MainFile
    \/ MainSkip
    \/ MainEnd
    \/ MainEnumFail
    \/ McResolveOk
    \/ McResolveFail
    \/ McConnectOk
    \/ McConnectFail
    \/ McGiveUp
    \/ SfOpenFail
    \/ SfOpenOk
    \/ SfWriteOk("name_len")
    \/ SfWriteFail("name_len")
    \/ SfWriteOk("name")
    \/ SfWriteFail("name")
    \/ SfWriteOk("size")
    \/ SfWriteFail("size")
    \/ SfChunkOk
    \/ SfChunkFail
    \/ SfChunkZero
    \/ FileTruncate
    \/ SfMd5Ok
    \/ SfMd5Fail
    \/ SfWriteOk("hash_len")
    \/ SfWriteFail("hash_len")
    \/ SfWriteOk("hash")
    \/ SfWriteFail("hash")

Spec == Init /\ [][Next]_vars

\* uint32_t net_file_size = htonl(file_size)
EncodeSize ==
    /\ pc = "encode"
    /\ net_file_size' = Htonl(ToU32(file_size_bytes))
    /\ pc' = "encoded"
    /\ UNCHANGED <<entries, idx, started, retry_count, hist, wlog, file_size,
                   total_bytes_sent, slept, sfExit, result, abort>>
    /\ UNCHANGED file_size_bytes
    /\ UNCHANGED flen
    /\ UNCHANGED progress
    /\ UNCHANGED md5_updates
    /\ UNCHANGED socks
    /\ UNCHANGED out
    /\ UNCHANGED mtx

NextSize == EncodeSize

SpecSize == InitSize /\ [][NextSize]_vars

\* ================================================================ properties
FailKinds == {"conn", "open", "write", "throw"}

\* failed attempts among the events h
Failures(h) == Len(SelectSeq(h, LAMBDA e : e \in FailKinds))

IsPrefix(s, t) == Len(s) <= Len(t) /\ s = SubSeq(t, 1, Len(s))

\* the regular files of the directory
RegularFiles == {i \in 1..MaxEntries : entries[i] = "file"}

\* C1: every failed attempt increments the attempt counter by exactly one,
\* whether the failure is a connection error or send_file returning false:
\* at the head of the retry loop the counter equals the failed attempts
C1_EveryFailureCounted ==
    pc = "loop" => retry_count = Failures(hist)

\* C2: one manage_connection call makes at most MAX_RETRIES connect+transfer
\* attempts, whatever the outcomes of connect and transfer
C2_AtMostMaxAttempts ==
    Attempts(hist) <= MAX_RETRIES

\* C3: when neither resolution nor enumeration failed, main ends only after
\* manage_connection has been called for every regular file of the directory
C3_EveryFileAttempted ==
    (pc = "done" /\ abort \notin {"resolve", "enum"}) => started = RegularFiles

\* the events of a call in which connect fails until the loop gives up
Exhausted ==
    <<"connect", "conn", "sleep", "connect", "conn", "sleep",
      "connect", "conn", "sleep", "failed">>

\* connection establishment failed on every attempt recorded in h
ConnAlwaysFails(h) ==
    \A i \in 1..Len(h) :
        /\ h[i] # "resolve_error"
        /\ h[i] = "connect" => (i < Len(h) /\ h[i + 1] = "conn")

\* C4: when connection establishment fails on every attempt, manage_connection
\* makes exactly MAX_RETRIES attempts with a delay between consecutive ones,
\* reports Failed and returns normally
C4_RetryExhaustion ==
    ConnAlwaysFails(hist) =>
        /\ IsPrefix(hist, Exhausted)
        /\ result # "none" =>
              /\ hist = Exhausted
              /\ Attempts(hist) = MAX_RETRIES
              /\ result = "Failed"

C4_Witness ==
    /\ result = "Failed"
    /\ pc = "main_iter"
    /\ Attempts(hist) = 3
    /\ Failures(hist) = Len(SelectSeq(hist, LAMBDA e : e = "conn"))

\* C5: no event follows a successful send_file in the same manage_connection
\* call, which ends Succeeded; a connect failure on attempt 1 followed by a
\* successful attempt 2 gives exactly 2 attempts
C5_RetrySuccess ==
    /\ \A i \in 1..Len(hist) :
          hist[i] = "ok" => (i = Len(hist) /\ result = "Succeeded")
    /\ (/\ Len(hist) >= 5
        /\ SubSeq(hist, 1, 5) = <<"connect", "conn", "sleep", "connect", "ok">>)
          => (Attempts(hist) = 2 /\ result = "Succeeded" /\ sfExit = "true"
              /\ pc \in {"main_iter", "done"})

C5_Witness ==
    /\ hist = <<"connect", "conn", "sleep", "connect", "ok">>
    /\ result = "Succeeded"

\* C6: the delay is waited only when a retry follows: after a delay the
\* attempt counter is still below MAX_RETRIES
C6_DelayOnlyBeforeRetry ==
    (hist # <<>> /\ Last(hist) = "sleep") => retry_count < MAX_RETRIES

\* C7: when the file cannot be opened send_file returns false and nothing
\* has been written to the connection
C7_OpenFailWritesNothing ==
    (hist # <<>> /\ Last(hist) = "open") => (sfExit = "false" /\ wlog = <<>>)

C7_Witness ==
    /\ hist # <<>>
    /\ Last(hist) = "open"
    /\ sfExit = "false"
    /\ pc = "loop"

\* C8: after a send_file that failed to open the file, no further connection
\* attempt is made for that file
C8_OpenFailNotRetried ==
    \A i \in 1..Len(hist) :
        hist[i] = "open" => \A j \in (i + 1)..Len(hist) : hist[j] # "connect"

\* C9 as stated: a failed write is the last write on its connection and
\* send_file returns false to its caller
C9_WriteFailReturnsFalse ==
    \A i \in 1..Len(wlog) :
        ~wlog[i].ok => (i = Len(wlog) /\ sfExit = "false")

\* C9 amended: a failed write is the last write on its connection; send_file
\* returns false when the failed write is a payload chunk and is left by the
\* system_error exception, which manage_connection catches, when it is the
\* name length, name, size, checksum length or checksum
C9_WriteFailAborts ==
    \A i \in 1..Len(wlog) :
        ~wlog[i].ok =>
            /\ i = Len(wlog)
            /\ sfExit = (IF wlog[i].field = "chunk" THEN "false" ELSE "throw")
            /\ pc \notin {"sf_name", "sf_size", "sf_loop", "sf_hash_len", "sf_hash"}

C9_Witness ==
    /\ Len(wlog) > 4
    /\ ~Last(wlog).ok
    /\ Last(wlog).field = "chunk"
    /\ sfExit = "false"

\* the write b may directly follow the completed write a
Follows(a, b) ==
    CASE a.field = "name_len" -> b.field = "name"
      [] a.field = "name"     -> b.field = "size"
      [] a.field = "size"     -> \/ b.field = "chunk" /\ b.off = 0
                                 \/ b.field = "hash_len" /\ file_size = 0
      [] a.field = "chunk"    -> \/ b.field = "chunk" /\ b.off = a.off + a.n
                                 \/ b.field = "hash_len" /\ a.off + a.n = file_size
      [] a.field = "hash_len" -> b.field = "hash"
      [] a.field = "hash"     -> FALSE

\* C10: the writes of one send_file call come in the order name length, name,
\* size, payload chunks in file order, checksum length, checksum, each after
\* the one before it completed, and send_file returns true only after the
\* checksum write completed
C10_WriteOrder ==
    /\ wlog # <<>> => wlog[1].field = "name_len"
    /\ \A i \in 1..(Len(wlog) - 1) : wlog[i].ok /\ Follows(wlog[i], wlog[i + 1])
    /\ sfExit = "true" =>
          (wlog # <<>> /\ Last(wlog).field = "hash" /\ Last(wlog).ok)

C10_Witness ==
    /\ sfExit = "true"
    /\ file_size = 10000
    /\ Len(wlog) = 8

\* the size_t value a reader of the four big-endian bytes w obtains
WireValue(w) ==
    [i \in 1..SIZE_T_BYTES |-> IF i <= U32_BYTES THEN w[U32_BYTES + 1 - i] ELSE 0]

\* C11: the value encoded in the size field equals the measured file size,
\* which is the number of payload bytes a successful session writes, for
\* every file size, also one that does not fit in 32 bits
C11_SizeFieldIsPayloadCount ==
    net_file_size # <<>> => WireValue(net_file_size) = file_size_bytes

\* the thread is inside send_file, past the open check
InSendFile ==
    pc \in {"sf_name_len", "sf_name", "sf_size", "sf_loop", "sf_hash_len", "sf_hash"}

\* the fields of the write calls w, in order
Fields(w) == [i \in 1..Len(w) |-> w[i].field]

\* the bytes passed by the MD5_Update calls u
RECURSIVE FedBytes(_)
FedBytes(u) == IF u = <<>> THEN 0 ELSE u[1].n + FedBytes(Tail(u))

\* C12: for a zero-byte file send_file writes name length and name, a size
\* field encoding 0, no payload chunk and no progress update, then the
\* checksum field with the digest of no bytes, and returns true
C12_ZeroByteFile ==
    /\ (file_size = 0 /\ (InSendFile \/ sfExit = "true")) =>
          /\ progress = <<>>
          /\ \A i \in 1..Len(wlog) : wlog[i].field # "chunk"
    /\ (file_size = 0 /\ sfExit = "true") =>
          /\ Fields(wlog) = <<"name_len", "name", "size", "hash_len", "hash">>
          /\ \A i \in 1..Len(wlog) : wlog[i].ok
          /\ WireValue(net_file_size) = SizeT(0)
          /\ md5_updates # <<>>
          /\ FedBytes(md5_updates) = 0

C12_Witness ==
    /\ file_size = 0
    /\ sfExit = "true"
    /\ result = "Succeeded"
    /\ Len(wlog) = 5

\* C13: the percentages reported in one send_file call are
\* floor(100 * bytes sent / file size), never decrease, end with 100 once the
\* streaming loop has sent the whole of a non-empty file, and 100 is reported
\* only when all bytes have been sent
C13_Progress ==
    /\ \A i \in 1..Len(progress) : \A j \in i..Len(progress) :
          progress[i] <= progress[j]
    /\ \A i \in 1..Len(progress) :
          progress[i] = 100 => (i = Len(progress) /\ total_bytes_sent = file_size)
    /\ progress # <<>> =>
          /\ Last(progress) * file_size <= 100 * total_bytes_sent
          /\ 100 * total_bytes_sent < (Last(progress) + 1) * file_size
    /\ (file_size > 0 /\ total_bytes_sent >= file_size) =>
          (progress # <<>> /\ Last(progress) = 100)

C13_Witness ==
    /\ progress = <<40, 81, 100>>
    /\ file_size = 10000
    /\ pc = "sf_hash_len"

\* the payload chunk writes among the write calls w
Chunks(w) == SelectSeq(w, LAMBDA c : c.field = "chunk")

\* the byte counts of the write calls w
RECURSIVE Sizes(_)
Sizes(w) == IF w = <<>> THEN <<>> ELSE <<w[1].n>> \o Sizes(Tail(w))

\* the sum of the numbers of the sequence q
RECURSIVE Sum(_)
Sum(q) == IF q = <<>> THEN 0 ELSE q[1] + Sum(Tail(q))

\* C14: for a file unchanged during the transfer the payload chunk writes
\* are consecutive slices of the file, each of min(CHUNK_SIZE, bytes remaining)
\* bytes and not empty; a successful session has written slices that cover the
\* file exactly, and 10000 bytes go out as chunks of 4096, 4096 and 1808 bytes
C14_ChunksAreTheFile ==
    LET c == Chunks(wlog) IN
    /\ flen = file_size =>
          \A i \in 1..Len(c) :
              /\ c[i].off = Sum(Sizes(SubSeq(c, 1, i - 1)))
              /\ c[i].n = Min(CHUNK_SIZE, file_size - c[i].off)
              /\ c[i].n > 0
    /\ sfExit = "true" =>
          /\ flen = file_size
          /\ \A i \in 1..Len(c) : c[i].ok
          /\ Sum(Sizes(c)) = file_size
          /\ total_bytes_sent = file_size
    /\ (sfExit = "true" /\ file_size = 10000) => Sizes(c) = <<4096, 4096, 1808>>

C14_Witness ==
    /\ sfExit = "true"
    /\ flen = 10000
    /\ Len(Chunks(wlog)) = 3
    /\ Last(Chunks(wlog)).n = 1808

\* C15: a resolution failure is the only event of its manage_connection call:
\* no connection attempt and no delay; the exception ends main, so that no
\* entry after the failing file is processed
C15_ResolveFailureAborts ==
    (\E i \in 1..Len(hist) : hist[i] = "resolve_error") =>
        /\ hist = <<"resolve_error">>
        /\ Attempts(hist) = 0
        /\ slept = 0
        /\ result = "Thrown"
        /\ abort = "resolve"
        /\ pc = "done"
        /\ idx \in started
        /\ \A i \in started : i <= idx

C15_Witness ==
    /\ abort = "resolve"
    /\ pc = "done"
    /\ idx = 1
    /\ entries[2] = "file"
    /\ started = {1}

\* C16: every attempt has a socket of its own; at most one socket is open,
\* and only while its attempt is under way; a socket serves at most one
\* send_file call; a socket on which connect or a write failed is closed
\* and no write was made on it after the failure
C16_FreshConnections ==
    /\ Len(socks) = Attempts(hist)
    /\ Cardinality({i \in 1..Len(socks) : socks[i].open}) <= 1
    /\ \A i \in 1..Len(socks) :
          /\ socks[i].open => (i = Len(socks) /\ (pc = "sf_open" \/ InSendFile))
          /\ socks[i].sessions <= 1
          /\ socks[i].failed => (~socks[i].open /\ socks[i].late = 0)

C16_Witness ==
    /\ Len(socks) = 2
    /\ socks[1].failed
    /\ socks[1].written
    /\ ~socks[1].open
    /\ socks[2].open
    /\ socks[2].written

\* the message each failure event of h has to produce
RECURSIVE ExpectedMsgs(_)
ExpectedMsgs(h) ==
    IF h = <<>> THEN <<>>
    ELSE (CASE h[1] = "open" -> <<"Failed to open file">>
            [] h[1] = "write" -> <<"Failed to send data">>
            [] h[1] \in {"conn", "throw"} -> <<"Connection error">>
            [] h[1] = "failed" -> <<"Failed to send file after">>
            [] h[1] \in {"resolve_error", "md5"} -> <<"Error">>
            [] OTHER -> <<>>) \o ExpectedMsgs(Tail(h))

\* C17: every failure event (file-open, connect, write and resolution
\* failure, retry exhaustion, and the digest and enumeration failures that end
\* main) has printed its message by the time the program has moved on
C17_EveryFailureReported ==
    out = ExpectedMsgs(hist) \o (IF abort = "enum" THEN <<"Error">> ELSE <<>>)

C17_Witness ==
    /\ result = "Failed"
    /\ Len(out) = 5
    /\ out[1] = "Failed to open file"
    /\ out[5] = "Failed to send file after"

\* C18: the MD5_Update calls of calculate_md5 pass the bytes of the file in
\* order and once each: every call but the last passes CHUNK_SIZE bytes, the
\* last passes the bytes the final read returned, fewer than CHUNK_SIZE, and
\* the counts sum to the length of the file
C18_Md5FeedsTheFile ==
    md5_updates # <<>> =>
        /\ FedBytes(md5_updates) = flen
        /\ \A i \in 1..Len(md5_updates) :
              /\ md5_updates[i].off = FedBytes(SubSeq(md5_updates, 1, i - 1))
              /\ i < Len(md5_updates) => md5_updates[i].n = CHUNK_SIZE
        /\ Last(md5_updates).n = flen - Last(md5_updates).off
        /\ Last(md5_updates).n < CHUNK_SIZE

C18_Witness ==
    /\ flen = 4096
    /\ Len(md5_updates) = 2
    /\ md5_updates[1].n = 4096
    /\ md5_updates[2].n = 0

\* C19: the streaming loop ends: every round it makes sends at least one
\* byte, also after the file was truncated, so that it is left within
\* file_size rounds, and total_bytes_sent never exceeds file_size
C19_StreamingLoopEnds ==
    /\ (pc = "sf_loop" /\ total_bytes_sent < file_size) => BytesRead > 0
    /\ total_bytes_sent <= file_size

\* C20: mtx is never locked while it is held, and it is not held when
\* send_file is called, when send_file has returned or thrown, or when
\* manage_connection has returned
C20_MutexDiscipline ==
    /\ ~mtx.relock
    /\ pc \in {"sf_open", "loop", "main_iter", "done"} => ~mtx.held
    /\ InSendFile => ~mtx.held

C20_Witness ==
    /\ mtx.used
    /\ ~mtx.held
    /\ pc = "loop"
    /\ sfExit = "false"
    /\ Len(progress) = 2
====
